---- MODULE Spec2Model ----
(***************************************************************************)
(* EventFinder.ai (app/main.py): a Streamlit script.  Every interaction    *)
(* with a widget (the text input, a Summarize button) re-executes the      *)
(* script from its first line to its last; the first run is the page load, *)
(* with the text input at its default "".  One script run is modelled as   *)
(* a sequence of steps, one per call to a hosted service, so that a        *)
(* failing call can end the run where the exception is raised.             *)
(***************************************************************************)
EXTENDS Integers, Sequences, FiniteSets, TLC

VARIABLES
    pc,               \* position of the script run
    query,            \* value of the text input widget (line 111)
    trigger,          \* what started the latest script run: "load", "text_input" or "button"
    clicked,          \* the Summarize buttons (0-based card indices) whose click triggered this run
    intent,           \* line 116
    enhanced_query,   \* line 119
    query_embedding,  \* line 125
    matches,          \* line 134
    row_idx,          \* outer loop variable, line 140
    i,                \* inner loop variable, line 143
    rendered,         \* elements the run has put on the page, in order
    calls             \* requests the run has sent to the hosted services, with their responses

vars == <<pc, query, trigger, clicked, intent, enhanced_query, query_embedding,
          matches, row_idx, i, rendered, calls>>

(***************************************************************************)
(* Bounds and program constants                                            *)
(***************************************************************************)
NumShifts == 2        \* how many rotations of the event pool the index may answer with
TopK == 9             \* top_k=9, line 130
Columns == 3          \* range(0, len(matches), 3), st.columns(3), range(3)

Queries == {"", "tech workshops in Boston", " "}

(***************************************************************************)
(* Text of a chat completion, as a sequence of lexical tokens              *)
(***************************************************************************)
S(s) == [k |-> "str", s |-> s]          \* a JSON string literal
P(s) == [k |-> "punct", s |-> s]        \* { } [ ] : ,
WS == [k |-> "ws", s |-> " "]           \* whitespace
NullTok == [k |-> "null", s |-> "null"] \* the literal null
Word(s) == [k |-> "word", s |-> s]      \* bare prose

Obj3(a, b, c) ==
    << P("{"), S("mood"), P(":"), a, P(","), S("learning_goal"), P(":"), b, P(","),
       S("life_situation"), P(":"), c, P("}") >>

\* What the completion model may answer to the intent prompt.
IntentContents ==
    { <<WS>> \o Obj3(S(""), S(""), S("")) \o <<WS>>,
      Obj3(S("Curious"), S("learn AI"), S("new to city")),
      Obj3(S("Relaxed"), S(""), S("graduating")),
      << P("{"), S("mood"), P(":"), S("Relaxed"), P("}") >>,
      Obj3(NullTok, S(""), S("")),
      << P("["), P("]") >>,
      <<Word("Sure"), WS>> \o Obj3(S(""), S(""), S("")),
      << P("{"), S("mood"), P(":"), S("") >> }

\* What the completion model may answer to the summarize prompt.
SummaryContents ==
    { <<WS, Word("A short summary."), WS>>, <<Word("Join us.")>> }

(***************************************************************************)
(* str.strip() and json.loads                                              *)
(***************************************************************************)
RECURSIVE lstrip(_)
lstrip(t) == IF t # <<>> /\ Head(t).k = "ws" THEN lstrip(Tail(t)) ELSE t

RECURSIVE rstrip(_)
rstrip(t) ==
    IF t # <<>> /\ t[Len(t)].k = "ws" THEN rstrip(SubSeq(t, 1, Len(t) - 1)) ELSE t

strip(t) == rstrip(lstrip(t))

RECURSIVE Text(_)
Text(t) == IF t = <<>> THEN "" ELSE Head(t).s \o Text(Tail(t))

JStr(s) == [t |-> "str", s |-> s]
JNull == [t |-> "null"]
JObj(m) == [t |-> "obj", m |-> m]
JList(e) == [t |-> "list", e |-> e]
None == [t |-> "None"]

ParseFail == [ok |-> FALSE]
ParseOk(v, p) == [ok |-> TRUE, val |-> v, next |-> p]

RECURSIVE ParseValue(_, _), ParseMembers(_, _, _), ParseElements(_, _, _)
ParseValue(t, p) ==
    IF p > Len(t) THEN ParseFail
    ELSE IF t[p].k = "str" THEN ParseOk(JStr(t[p].s), p + 1)
    ELSE IF t[p].k = "null" THEN ParseOk(JNull, p + 1)
    ELSE IF t[p] = P("{") THEN
        IF p + 1 <= Len(t) /\ t[p + 1] = P("}")
        THEN ParseOk(JObj(<<>>), p + 2)
        ELSE ParseMembers(t, p + 1, <<>>)
    ELSE IF t[p] = P("[") THEN
        IF p + 1 <= Len(t) /\ t[p + 1] = P("]")
        THEN ParseOk(JList(<<>>), p + 2)
        ELSE ParseElements(t, p + 1, <<>>)
    ELSE ParseFail

ParseMembers(t, p, m) ==
    IF p + 1 > Len(t) \/ t[p].k # "str" \/ t[p + 1] # P(":") THEN ParseFail
    ELSE LET v == ParseValue(t, p + 2) IN
        IF ~v.ok \/ v.next > Len(t) THEN ParseFail
        ELSE LET m2 == (t[p].s :> v.val) @@ m IN      \* a repeated key: the last wins
            IF t[v.next] = P("}") THEN ParseOk(JObj(m2), v.next + 1)
            ELSE IF t[v.next] = P(",") THEN ParseMembers(t, v.next + 1, m2)
            ELSE ParseFail

ParseElements(t, p, e) ==
    LET v == ParseValue(t, p) IN
        IF ~v.ok \/ v.next > Len(t) THEN ParseFail
        ELSE IF t[v.next] = P("]") THEN ParseOk(JList(Append(e, v.val)), v.next + 1)
        ELSE IF t[v.next] = P(",") THEN ParseElements(t, v.next + 1, Append(e, v.val))
        ELSE ParseFail

\* json.loads: the whole text must be one JSON value, else JSONDecodeError.
json_loads(t) ==
    LET r == ParseValue(t, 1) IN
        IF r.ok /\ r.next = Len(t) + 1 THEN [ok |-> TRUE, val |-> r.val] ELSE [ok |-> FALSE]

(***************************************************************************)
(* Python dictionaries and formatting                                      *)
(***************************************************************************)
\* d.get(key, default)
Get(d, key, default) == IF key \in DOMAIN d THEN d[key] ELSE default

\* v[key] succeeds: v is a dict that has the key (else KeyError / TypeError)
HasItem(v, key) == v.t = "obj" /\ key \in DOMAIN v.m

\* "{v}" inside an f-string: str(v)
Fmt(v) ==
    CASE v.t = "str" -> v.s
      [] v.t = "null" -> "None"
      [] v.t = "list" /\ v.e = <<>> -> "[]"
      [] v.t = "obj" /\ DOMAIN v.m = {} -> "{}"

IntentKeys == {"mood", "learning_goal", "life_situation"}

(***************************************************************************)
(* The hosted services                                                     *)
(***************************************************************************)
Error == [err |-> TRUE]
Ok(body) == [err |-> FALSE, body |-> body]

V1 == <<1, 0>>
V2 == <<0, 1>>
\* response.data of the embedding service
EmbeddingData == { <<>>, <<V1>>, <<V2, V1>> }

E1 == [score |-> 9,
       metadata |-> [title |-> "AI Workshop", location |-> "Boston",
                     date_time |-> "2025-05-01", description |-> "Hands-on AI",
                     link |-> "http://e/1"]]
E2 == [score |-> 7, metadata |-> [title |-> "Art Walk", description |-> ""]]
E3 == [score |-> 5,
       metadata |-> [location |-> "Online", date_time |-> "2025-06-01",
                     link |-> "http://e/3"]]
E4 == [score |-> 3]
Pool == <<E1, E2, E3, E4>>

ResultList(n, shift) == [k \in 1..n |-> Pool[((k - 1 + shift) % Len(Pool)) + 1]]

\* What the index may answer to a query asking for top_k records: at most
\* top_k matches, or a response without the key "matches".
IndexResults(top_k) ==
    { [matches |-> ResultList(n, s)] : n \in 0..top_k, s \in 0..(NumShifts - 1) }
        \cup { [namespace |-> ""] }

(***************************************************************************)
(* Helper functions of main.py                                             *)
(***************************************************************************)
\* extract_intent_from_query: the request it sends
IntentRequest(user_query) == [client |-> "intent", arg |-> user_query]

\* faulty variant: an unparseable answer is replaced by an all-empty intent
extract_intent_from_query_fallback(resp) ==
    IF resp.err THEN [ok |-> FALSE]
    ELSE IF json_loads(strip(resp.body)).ok THEN json_loads(strip(resp.body))
    ELSE [ok |-> TRUE,
          val |-> JObj([mood |-> JStr(""), learning_goal |-> JStr(""),
                        life_situation |-> JStr("")])]

\* extract_intent_from_query: json.loads(content.strip()) of the response;
\* ok = FALSE stands for the exception it raises
extract_intent_from_query(resp) ==
    IF resp.err THEN [ok |-> FALSE] ELSE json_loads(strip(resp.body))

\* generate_query_embedding: the request it sends
EmbeddingRequest(text) ==
    [client |-> "embedding", arg |-> text, model |-> "text-embedding-ada-002"]

\* generate_query_embedding: response.data[0].embedding
generate_query_embedding(resp) ==
    IF resp.err \/ resp.body = <<>> THEN [ok |-> FALSE]
    ELSE [ok |-> TRUE, val |-> resp.body[1]]

\* summarize_event: the request it sends
SummaryRequest(description) ==
    [client |-> "summarize", arg |-> description,
     prompt |-> "Summarize the following event in 2-3 sentences:\n\n" \o description]

\* summarize_event: content.strip() of the response
summarize_event(resp) ==
    IF resp.err THEN [ok |-> FALSE] ELSE [ok |-> TRUE, val |-> Text(strip(resp.body))]

\* index.query(vector=query_embedding, top_k=9, include_metadata=True)
IndexRequest(vector) ==
    [client |-> "index", vector |-> vector, top_k |-> TopK, include_metadata |-> TRUE]

(***************************************************************************)
(* The script body                                                         *)
(***************************************************************************)
\* faulty variant: the pipeline runs for every query, the empty one included
ShouldSearch_always(q) == TRUE

\* if query:
ShouldSearch(q) == q # ""

\* faulty variant: the raw query is embedded
EnhancedQuery_raw(q, it) == q

\* line 119
EnhancedQuery(q, it) ==
    q \o ". Mood: " \o Fmt(it.m["mood"]) \o ". Learning goal: "
      \o Fmt(it.m["learning_goal"]) \o ". Life situation: "
      \o Fmt(it.m["life_situation"]) \o "."

\* line 122
IntentNotice(it) ==
    [kind |-> "intent",
     text |-> "Detected Mood: " \o Fmt(it.m["mood"]) \o ", Goal: "
              \o Fmt(it.m["learning_goal"]) \o ", Life: " \o Fmt(it.m["life_situation"])]

\* results.get("matches", [])
MatchesOf(results) == Get(results, "matches", <<>>)

FoundNotice(n) == [kind |-> "found", n |-> n]
NoEventsWarning == [kind |-> "warning", text |-> "No events found matching your query."]
Exception(stage) == [kind |-> "exception", stage |-> stage]

\* faulty variant: the row offset is forgotten
CardIndex_column(r, c) == c

\* matches[row_idx + i]
CardIndex(r, c) == r + c

MetaOf(match) == Get(match, "metadata", <<>>)
DocOf(match) == Get(MetaOf(match), "description", "No Description")

\* faulty variant: the title's fallback is used for the location too
Card_fallback(match, idx) ==
    [kind |-> "card", idx |-> idx,
     title |-> Get(MetaOf(match), "title", "No Title"),
     location |-> Get(MetaOf(match), "location", "No Title"),
     date_time |-> Get(MetaOf(match), "date_time", "Unknown"),
     link |-> Get(MetaOf(match), "link", "#"),
     button |-> idx + 1]

\* what lines 157-162 put on the page for one match
Card(match, idx) ==
    [kind |-> "card", idx |-> idx,
     title |-> Get(MetaOf(match), "title", "No Title"),
     location |-> Get(MetaOf(match), "location", "Unknown"),
     date_time |-> Get(MetaOf(match), "date_time", "Unknown"),
     link |-> Get(MetaOf(match), "link", "#"),
     button |-> idx + 1]

SummaryBox(idx, text) == [kind |-> "summary", idx |-> idx, text |-> text]

\* the buttons a page shows
Buttons(page) == { page[k].idx : k \in { j \in 1..Len(page) : page[j].kind = "card" } }

Finished == {"Idle", "Done", "Failed"}

TypeOK ==
    /\ pc \in {"Idle", "ExtractingIntent", "Augmenting", "Embedding", "Retrieving",
               "Rendering", "Done", "Failed"}
    /\ query \in Queries
    /\ trigger \in {"load", "text_input", "button"}
    /\ clicked \subseteq 0..(TopK - 1)
    /\ Cardinality(clicked) <= 1
    /\ row_idx \in 0..TopK
    /\ i \in 0..(Columns - 1)

Init ==
    /\ pc = "Idle"
    /\ query = ""
    /\ trigger = "load"
    /\ clicked = {}
    /\ intent = None
    /\ enhanced_query = ""
    /\ query_embedding = <<>>
    /\ matches = <<>>
    /\ row_idx = 0
    /\ i = 0
    /\ rendered = <<>>
    /\ calls = <<>>

\* A script run starts: lines 1-113 with the widget state (q, c).
StartRun(q, c) ==
    /\ query' = q
    /\ trigger' = IF c = {} THEN "text_input" ELSE "button"
    /\ clicked' = c
    /\ intent' = None
    /\ enhanced_query' = ""
    /\ query_embedding' = <<>>
    /\ matches' = <<>>
    /\ row_idx' = 0
    /\ i' = 0
    /\ rendered' = <<>>
    /\ calls' = <<>>
    /\ pc' = IF ShouldSearch(q) THEN "ExtractingIntent" ELSE "Idle"

\* The user submits the text input (or reruns the page).
SubmitQuery ==
    /\ pc \in Finished
    /\ \E q \in Queries : StartRun(q, {})

\* The user clicks a Summarize button of the page: the script runs again,
\* and st.button returns True for that button's key in the new run.
ClickSummarize ==
    /\ pc \in Finished
    /\ \E k \in Buttons(rendered) : StartRun(query, {k})

Fail(stage) ==
    /\ pc' = "Failed"
    /\ rendered' = Append(rendered, Exception(stage))

\* line 116
ExtractIntent ==
    /\ pc = "ExtractingIntent"
    /\ \E r \in {Error} \cup { Ok(c) : c \in IntentContents } :
         LET got == extract_intent_from_query(r) IN
           /\ calls' = Append(calls, IntentRequest(query) @@ [resp |-> r])
           /\ IF got.ok
              THEN /\ intent' = got.val
                   /\ pc' = "Augmenting"
                   /\ UNCHANGED rendered
              ELSE /\ Fail("intent")
                   /\ UNCHANGED intent
    /\ UNCHANGED <<query, trigger, clicked, enhanced_query, query_embedding, matches, row_idx, i>>

\* lines 119-122
Augment ==
    /\ pc = "Augmenting"
    /\ IF \A k \in IntentKeys : HasItem(intent, k)
       THEN /\ enhanced_query' = EnhancedQuery(query, intent)
            /\ rendered' = Append(rendered, IntentNotice(intent))
            /\ pc' = "Embedding"
       ELSE /\ Fail("augment")
            /\ UNCHANGED enhanced_query
    /\ UNCHANGED <<query, trigger, clicked, intent, query_embedding, matches, row_idx, i, calls>>

\* faulty variant: a failed embedding call is tried once more before giving up
Embed_retry ==
    /\ pc = "Embedding"
    /\ \E r \in {Error} \cup { Ok(d) : d \in EmbeddingData } :
         LET got == generate_query_embedding(r)
             sent == EmbeddingRequest(enhanced_query) @@ [resp |-> r]
         IN
           /\ IF got.ok
              THEN /\ calls' = Append(calls, sent)
                   /\ query_embedding' = got.val
                   /\ pc' = "Retrieving"
                   /\ UNCHANGED rendered
              ELSE /\ calls' = calls \o <<sent, sent>>
                   /\ Fail("embedding")
                   /\ UNCHANGED query_embedding
    /\ UNCHANGED <<query, trigger, clicked, intent, enhanced_query, matches, row_idx, i>>

\* line 125
Embed ==
    /\ pc = "Embedding"
    /\ \E r \in {Error} \cup { Ok(d) : d \in EmbeddingData } :
         LET got == generate_query_embedding(r) IN
           /\ calls' = Append(calls, EmbeddingRequest(enhanced_query) @@ [resp |-> r])
           /\ IF got.ok
              THEN /\ query_embedding' = got.val
                   /\ pc' = "Retrieving"
                   /\ UNCHANGED rendered
              ELSE /\ Fail("embedding")
                   /\ UNCHANGED query_embedding
    /\ UNCHANGED <<query, trigger, clicked, intent, enhanced_query, matches, row_idx, i>>

\* faulty variant: an empty match list is treated as a failure of the index
QueryIndex_emptyfails ==
    /\ pc = "Retrieving"
    /\ LET req == IndexRequest(query_embedding) IN
       \E r \in {Error} \cup { Ok(x) : x \in IndexResults(req.top_k) } :
           /\ calls' = Append(calls, req @@ [resp |-> r])
           /\ IF r.err \/ MatchesOf(r.body) = <<>>
              THEN /\ Fail("index")
                   /\ UNCHANGED matches
              ELSE /\ matches' = MatchesOf(r.body)
                   /\ rendered' = Append(rendered, FoundNotice(Len(MatchesOf(r.body))))
                   /\ pc' = "Rendering"
    /\ row_idx' = 0
    /\ i' = 0
    /\ UNCHANGED <<query, trigger, clicked, intent, enhanced_query, query_embedding>>

\* lines 128-137 and 173-174
QueryIndex ==
    /\ pc = "Retrieving"
    /\ LET req == IndexRequest(query_embedding) IN
       \E r \in {Error} \cup { Ok(x) : x \in IndexResults(req.top_k) } :
           /\ calls' = Append(calls, req @@ [resp |-> r])
           /\ IF r.err
              THEN /\ Fail("index")
                   /\ UNCHANGED matches
              ELSE /\ matches' = MatchesOf(r.body)
                   /\ IF MatchesOf(r.body) # <<>>
                      THEN /\ rendered' = Append(rendered, FoundNotice(Len(MatchesOf(r.body))))
                           /\ pc' = "Rendering"
                      ELSE /\ rendered' = Append(rendered, NoEventsWarning)
                           /\ pc' = "Done"
    /\ row_idx' = 0
    /\ i' = 0
    /\ UNCHANGED <<query, trigger, clicked, intent, enhanced_query, query_embedding>>

\* the loop headers of lines 140 and 143: the next (row_idx, i), or the end
Advance ==
    IF i + 1 < Columns
    THEN /\ i' = i + 1
         /\ UNCHANGED <<row_idx, pc>>
    ELSE IF row_idx + Columns < Len(matches)
    THEN /\ row_idx' = row_idx + Columns
         /\ i' = 0
         /\ UNCHANGED pc
    ELSE /\ pc' = "Done"
         /\ UNCHANGED <<row_idx, i>>

\* faulty variant: no summary is requested for an empty or placeholder description
RenderStep_shortcircuit ==
    /\ pc = "Rendering"
    /\ LET idx == CardIndex(row_idx, i) IN
       IF idx < Len(matches)
       THEN LET match == matches[idx + 1]
                doc == DocOf(match)
            IN IF idx \in clicked /\ doc \notin {"", "No Description"}
               THEN \E r \in {Error} \cup { Ok(c) : c \in SummaryContents } :
                      LET summary == summarize_event(r) IN
                        /\ calls' = Append(calls, SummaryRequest(doc) @@ [resp |-> r])
                        /\ IF summary.ok
                           THEN /\ rendered' = rendered \o
                                      <<Card(match, idx), SummaryBox(idx, summary.val)>>
                                /\ Advance
                           ELSE /\ rendered' = rendered \o
                                      <<Card(match, idx), Exception("summarize")>>
                                /\ pc' = "Failed"
                                /\ UNCHANGED <<row_idx, i>>
               ELSE /\ rendered' = Append(rendered, Card(match, idx))
                    /\ Advance
                    /\ UNCHANGED calls
       ELSE /\ Advance
            /\ UNCHANGED <<rendered, calls>>
    /\ UNCHANGED <<query, trigger, clicked, intent, enhanced_query, query_embedding, matches>>

\* one pass through the body of the inner loop, lines 144-172
RenderStep ==
    /\ pc = "Rendering"
    /\ LET idx == CardIndex(row_idx, i) IN
       IF idx < Len(matches)
       THEN LET match == matches[idx + 1]
                doc == DocOf(match)
            IN IF idx \in clicked
               THEN \E r \in {Error} \cup { Ok(c) : c \in SummaryContents } :
                      LET summary == summarize_event(r) IN
                        /\ calls' = Append(calls, SummaryRequest(doc) @@ [resp |-> r])
                        /\ IF summary.ok
                           THEN /\ rendered' = rendered \o
                                      <<Card(match, idx), SummaryBox(idx, summary.val)>>
                                /\ Advance
                           ELSE /\ rendered' = rendered \o
                                      <<Card(match, idx), Exception("summarize")>>
                                /\ pc' = "Failed"
                                /\ UNCHANGED <<row_idx, i>>
               ELSE /\ rendered' = Append(rendered, Card(match, idx))
                    /\ Advance
                    /\ UNCHANGED calls
       ELSE /\ Advance
            /\ UNCHANGED <<rendered, calls>>
    /\ UNCHANGED <<query, trigger, clicked, intent, enhanced_query, query_embedding, matches>>

Next ==
    \/ SubmitQuery
    \/ ClickSummarize
    \/ ExtractIntent
    \/ Augment
    \/ Embed
    \/ QueryIndex
    \/ RenderStep

Spec == Init /\ [][Next]_vars

(***************************************************************************)
(* Properties                                                              *)
(***************************************************************************)
CallsTo(c) == { k \in 1..Len(calls) : calls[k].client = c }
Count(c) == Cardinality(CallsTo(c))
Shown(kind) == \E k \in 1..Len(rendered) : rendered[k].kind = kind
Cards == SelectSeq(rendered, LAMBDA e : e.kind = "card")
PipelineClients == {"intent", "embedding", "index"}

\* C1: in a run whose query is the empty string the pipeline stays Idle: no
\* call to any of the four services is issued and nothing is rendered (no
\* match card, no no-results notice, no intent notice).
C1_EmptyQueryStaysIdle ==
    query = "" =>
        /\ pc = "Idle"
        /\ \A c \in PipelineClients \cup {"summarize"} : Count(c) = 0
        /\ ~Shown("card") /\ ~Shown("warning") /\ ~Shown("intent")
        /\ rendered = <<>>

\* a run was started by submitting the text input with the empty query
C1_Witness ==
    /\ trigger = "text_input"
    /\ query = ""
    /\ pc = "Idle"
    /\ calls = <<>>

\* C2: in every run each of the three pipeline clients is called at most
\* once, and exactly once each in a run that reaches Done; this is also so in
\* a run that repeats the query of the run before it (no memoization).
C2_OneCallPerClient ==
    \A c \in PipelineClients :
        /\ Count(c) <= 1
        /\ (pc = "Done" => Count(c) = 1)

\* a second run of the same query (a rerun caused by a button) reached Done
\* and made one call to each client again
C2_Witness ==
    /\ pc = "Done"
    /\ trigger = "button"
    /\ query # ""
    /\ \A c \in PipelineClients : Count(c) = 1

\* the response to call c is an upstream error: the service failed, or the
\* completion model's answer to the intent prompt is not JSON
UpstreamError(c) ==
    /\ c.client \in PipelineClients
    /\ \/ c.resp.err
       \/ c.client = "intent" /\ ~json_loads(strip(c.resp.body)).ok

\* C3: after an error from one of the three pipeline clients the run is
\* Failed, the failed call is the last call of the run (no later stage is
\* called), no intent is synthesized for an unparseable answer, and no match
\* card, summary or no-results notice is rendered.
C3_FailureIsAtomic ==
    \A k \in 1..Len(calls) :
        UpstreamError(calls[k]) =>
            /\ pc = "Failed"
            /\ k = Len(calls)
            /\ ~Shown("card") /\ ~Shown("warning") /\ ~Shown("summary")
            /\ (calls[k].client = "intent" => intent = None /\ ~Shown("intent"))

\* the model's answer was not JSON (prose before the object) and the run failed
C3_Witness ==
    /\ pc = "Failed"
    /\ Len(calls) = 1
    /\ ~calls[1].resp.err
    /\ ~json_loads(strip(calls[1].resp.body)).ok

\* an index error after a successful intent extraction and embedding
C3_WitnessIndex ==
    /\ pc = "Failed"
    /\ Len(calls) = 3
    /\ calls[3].resp.err
    /\ Shown("intent")

\* C4: whenever intent extraction has returned (the model's answer parsed as
\* JSON), the Intent has exactly the keys mood, learning_goal and
\* life_situation, each a string, and the augmentation step does not fail.
C4_IntentHasThreeStringFields ==
    /\ intent # None =>
          /\ intent.t = "obj"
          /\ DOMAIN intent.m = IntentKeys
          /\ \A k \in IntentKeys : intent.m[k].t = "str"
    /\ \A k \in 1..Len(rendered) :
          rendered[k].kind = "exception" => rendered[k].stage # "augment"

\* C5: a run started by a Summarize button makes exactly one summarization
\* call and no intent-extraction, embedding or index-query call.
C5_SummarizeIsOneIndependentCall ==
    trigger = "button" =>
        /\ \A c \in PipelineClients : Count(c) = 0
        /\ Count("summarize") <= 1
        /\ (pc \in Finished => Count("summarize") = 1)

\* the index answered without error and with no match
ZeroMatches ==
    \E k \in 1..Len(calls) :
        /\ calls[k].client = "index"
        /\ ~calls[k].resp.err
        /\ \/ "matches" \notin DOMAIN calls[k].resp.body
           \/ calls[k].resp.body.matches = <<>>

\* C6: when the index query succeeded with zero matches the run is Done (not
\* Failed), the no-events-found notice is rendered, and neither a match card
\* nor an error is; and the notice is rendered only in that case.
C6_ZeroMatchesIsDone ==
    /\ ZeroMatches =>
          /\ pc = "Done"
          /\ Shown("warning")
          /\ ~Shown("card") /\ ~Shown("found") /\ ~Shown("exception")
    /\ Shown("warning") => ZeroMatches

\* the index returned an empty list of matches and the notice is on the page
C6_Witness ==
    /\ pc = "Done"
    /\ Len(calls) = 3
    /\ ~calls[3].resp.err
    /\ "matches" \in DOMAIN calls[3].resp.body
    /\ calls[3].resp.body.matches = <<>>
    /\ rendered[Len(rendered)] = NoEventsWarning

\* the matches the index returned in this run, <<>> before it answered
Returned ==
    IF Len(calls) >= 3 /\ calls[3].client = "index" /\ ~calls[3].resp.err
          /\ "matches" \in DOMAIN calls[3].resp.body
    THEN calls[3].resp.body.matches
    ELSE <<>>

\* C7: at most top-K (9) cards are rendered; the k-th card rendered is the
\* card of the k-th match the index returned (no match skipped, duplicated
\* or reordered), and a run that ends Done has rendered all of them.
C7_CardsInIndexOrder ==
    /\ Len(Cards) <= TopK
    /\ Len(Cards) <= Len(Returned)
    /\ \A k \in 1..Len(Cards) :
          /\ Cards[k].idx = k - 1
          /\ Cards[k].button = k
          /\ Cards[k] = Card(Returned[k], k - 1)
    /\ (pc = "Done" => Len(Cards) = Len(Returned))

\* a full page: nine matches returned, nine cards rendered, in three rows
C7_Witness ==
    /\ pc = "Done"
    /\ Len(Returned) = TopK
    /\ Len(Cards) = TopK
    /\ row_idx = TopK - Columns

\* the value shown for a metadata key of a match: its own, or the fallback
Display(match, key, fallback) ==
    IF "metadata" \in DOMAIN match /\ key \in DOMAIN match.metadata
    THEN match.metadata[key]
    ELSE fallback

\* C8: every card shows, for each metadata key, the match's own value when
\* the key is present and the fallback when the key (or the metadata mapping)
\* is absent; the description handed to summarization follows the same rule;
\* an absent key never fails the run: the only failure while rendering is a
\* failed summarization call.
C8_FallbacksForAbsentKeys ==
    /\ \A k \in 1..Len(Cards) :
          LET m == matches[Cards[k].idx + 1] IN
            /\ Cards[k].title = Display(m, "title", "No Title")
            /\ Cards[k].location = Display(m, "location", "Unknown")
            /\ Cards[k].date_time = Display(m, "date_time", "Unknown")
            /\ Cards[k].link = Display(m, "link", "#")
    /\ \A k \in CallsTo("summarize") :
          \E j \in clicked :
             calls[k].arg = Display(matches[j + 1], "description", "No Description")
    /\ (pc = "Failed" /\ Shown("found")) =>
          /\ rendered[Len(rendered)] = Exception("summarize")
          /\ calls[Len(calls)].client = "summarize"
          /\ calls[Len(calls)].resp.err
    /\ (pc = "Done" /\ Shown("found")) => Len(Cards) = Len(matches)

\* a page with a card for a match without metadata (every fallback shown)
\* and a card for a match with all five keys (its own values shown)
C8_Witness ==
    /\ pc = "Done"
    /\ \E k \in 1..Len(Cards) :
          /\ "metadata" \notin DOMAIN matches[k]
          /\ Cards[k].title = "No Title"
          /\ Cards[k].location = "Unknown"
          /\ Cards[k].date_time = "Unknown"
          /\ Cards[k].link = "#"
    /\ \E k \in 1..Len(Cards) :
          /\ Cards[k].title = "AI Workshop"
          /\ Cards[k].location = "Boston"
          /\ Cards[k].link = "http://e/1"

\* C9: once the card of the clicked button has been rendered, a
\* summarization call has been issued, whatever the description (absent,
\* empty or present); its argument is the description of that card's match in
\* the run that renders it, the text No Description when the key is absent
\* and the empty text when the description is empty.
C9_SummarizeHasNoShortCircuit ==
    /\ \A k \in 1..Len(Cards) :
          Cards[k].idx \in clicked => Count("summarize") = 1
    /\ \A k \in CallsTo("summarize") :
          \E j \in clicked :
             /\ j < Len(matches)
             /\ \E c \in 1..Len(Cards) : Cards[c].idx = j
             /\ calls[k].arg = Display(matches[j + 1], "description", "No Description")

\* summarize was clicked on a card whose match has no description key, and
\* the call went out with the placeholder
C9_Witness ==
    \E k \in CallsTo("summarize") :
       \E j \in clicked :
          /\ "metadata" \in DOMAIN matches[j + 1]
          /\ "description" \notin DOMAIN matches[j + 1].metadata
          /\ calls[k].arg = "No Description"
          /\ ~calls[k].resp.err
          /\ Shown("summary")

\* summarize was clicked on a card whose description is empty
C9_WitnessEmpty ==
    \E k \in CallsTo("summarize") :
       \E j \in clicked :
          /\ Display(matches[j + 1], "description", "absent") = ""
          /\ calls[k].arg = ""

\* str() of an intent field
StrOf(v) == IF v.t = "str" THEN v.s ELSE "None"

\* C10: the embedding call is the second call of a run, after an intent
\* call whose answer parsed to an object with the three fields; its argument
\* is '<query>. Mood: <mood>. Learning goal: <learning_goal>. Life
\* situation: <life_situation>.', never the raw query.  The index call is the
\* third call, after an embedding call that succeeded, with the vector that
\* call returned and top_k = 9.
C10_StagesInOrder ==
    /\ \A k \in CallsTo("embedding") :
          /\ k = 2
          /\ calls[1].client = "intent"
          /\ ~calls[1].resp.err
          /\ intent.t = "obj"
          /\ IntentKeys \subseteq DOMAIN intent.m
          /\ calls[k].arg =
                query \o ". Mood: " \o StrOf(intent.m["mood"])
                      \o ". Learning goal: " \o StrOf(intent.m["learning_goal"])
                      \o ". Life situation: " \o StrOf(intent.m["life_situation"]) \o "."
          /\ calls[k].arg # query
          /\ (query = "tech workshops in Boston"
                /\ \A f \in IntentKeys : intent.m[f] = JStr("")) =>
                calls[k].arg =
                  "tech workshops in Boston. Mood: . Learning goal: . Life situation: ."
    /\ \A k \in CallsTo("index") :
          /\ k = 3
          /\ calls[2].client = "embedding"
          /\ ~calls[2].resp.err
          /\ calls[2].resp.body # <<>>
          /\ calls[k].vector = calls[2].resp.body[1]
          /\ calls[k].top_k = 9

\* the scenario of the specification: all three fields empty, the augmented
\* string embedded, the index queried with the returned vector
C10_Witness ==
    /\ pc = "Done"
    /\ Len(calls) >= 3
    /\ calls[2].arg = "tech workshops in Boston. Mood: . Learning goal: . Life situation: ."
    /\ calls[2].resp.body = <<V2, V1>>
    /\ calls[3].vector = V2
    /\ Len(Cards) = 4

====
